---- MODULE Spec2Model ----
(***************************************************************************)
(* Model of the in-memory inventory service of src/main.py: the store      *)
(* _inventory, the three endpoints POST /api/move, GET /api/inventory and  *)
(* POST /api/reset, and the pure helpers they use.                         *)
(*                                                                         *)
(* Strings are sequences of one-character strings, so that strip(),        *)
(* lower(), title() and the ordering of sorted() are computed and not      *)
(* assumed.  A number of a request or an answer is an exact fraction       *)
(* [num, den]; a float the program holds (item.unit_cost) is an IEEE 754   *)
(* double, kept together with the value exact arithmetic would give, so    *)
(* that every operation and round() act on the double the code holds.      *)
(***************************************************************************)
EXTENDS Integers, Sequences, FiniteSets

\* ---------------------------------------------------------------- bounds
\* Largest number of units purchased into the whole store since the last
\* reset (accepted purchases beyond it are not explored).
MaxUnits == 2

\* ------------------------------------------------------------ characters
\* Code point of a character of the model's alphabet (Python compares str
\* by code point).
Ord(c) ==
  CASE c = "\t" -> 9
    [] c = " "  -> 32
    [] c = "A"  -> 65
    [] c = "B"  -> 66
    [] c = "a"  -> 97
    [] c = "b"  -> 98

\* str.isspace for one character.
isspace(c) == c \in {" ", "\t"}

\* True for a cased letter of the alphabet.
isalpha(c) == c \in {"A", "B", "a", "b"}

lower_char(c) == IF c = "A" THEN "a" ELSE IF c = "B" THEN "b" ELSE c

upper_char(c) == IF c = "a" THEN "A" ELSE IF c = "b" THEN "B" ELSE c

\* --------------------------------------------------------------- strings
RECURSIVE lstrip(_)
lstrip(s) ==
  IF s # <<>> /\ isspace(Head(s)) THEN lstrip(Tail(s)) ELSE s

RECURSIVE rstrip(_)
rstrip(s) ==
  IF s # <<>> /\ isspace(s[Len(s)]) THEN rstrip(SubSeq(s, 1, Len(s) - 1)) ELSE s

\* str.strip(): leading and trailing whitespace removed.
strip(s) == rstrip(lstrip(s))

\* str.lower()
lower(s) == [i \in 1..Len(s) |-> lower_char(s[i])]

\* str.title(): a letter that follows a non-letter (or starts the string) is
\* upper-cased, every other letter is lower-cased.
title(s) ==
  [i \in 1..Len(s) |->
     IF i = 1 \/ ~isalpha(s[i - 1]) THEN upper_char(s[i]) ELSE lower_char(s[i])]

\* Python's < on str: lexicographic by code point, a proper prefix is smaller.
RECURSIVE str_lt(_, _)
str_lt(s, t) ==
  IF t = <<>> THEN FALSE
  ELSE IF s = <<>> THEN TRUE
  ELSE IF Ord(Head(s)) # Ord(Head(t)) THEN Ord(Head(s)) < Ord(Head(t))
  ELSE str_lt(Tail(s), Tail(t))

\* ------------------------------------------------------------- rationals
\* A number is a fraction [num, den] with den > 0.  The arithmetic returns
\* fractions that need not be in lowest terms; Rat reduces one, and every
\* number kept in the state is reduced, so that equal numbers are equal
\* values.
RECURSIVE GCD(_, _)
GCD(a, b) == IF b = 0 THEN a ELSE GCD(b, a % b)

Abs(n) == IF n < 0 THEN -n ELSE n

\* The fraction n/d (d # 0) in lowest terms with a positive denominator.
Rat(n, d) ==
  LET g == GCD(Abs(n), Abs(d))
      s == IF d < 0 THEN -1 ELSE 1
  IN  [num |-> s * (n \div g), den |-> s * (d \div g)]

Reduced(x) == Rat(x.num, x.den)

RInt(i) == [num |-> i, den |-> 1]

RAdd(x, y) == [num |-> x.num * y.den + y.num * x.den, den |-> x.den * y.den]

RMul(x, y) == [num |-> x.num * y.num, den |-> x.den * y.den]

\* x / y for y > 0.
RDiv(x, y) == [num |-> x.num * y.den, den |-> x.den * y.num]

RLess(x, y) == x.num * y.den < y.num * x.den

\* ---------------------------------------------------------------- floats
\* A Python float is an IEEE 754 double.  The double y >= 0 is the record
\* [num, den, exp, err] with
\*         y = (num * 2^exp + err) / (den * 2^exp)
\* where num/den, in lowest terms, is the number the same operations give in
\* exact arithmetic, (num * 2^exp + err) / den is the 53-bit significand of
\* y (at least 2^52, below 2^53) and err is the small integer that locates
\* the double next to num/den: err = 0 when num/den is itself a double.
\* 0.0 is [num |-> 0, den |-> 1, exp |-> 0, err |-> 0].  The operations are
\* those of the code on non-negative operands in the normal range (no
\* underflow, overflow, infinity or NaN), each rounded to the nearest double,
\* ties to the even significand.

\* a * b modulo m for a, b in 0..m-1, with no intermediate result above 2 * m
\* once m * m would leave the range of the integers of the model checker.
RECURSIVE mulmod(_, _, _)
mulmod(a, b, m) ==
  IF m <= 46340 THEN (a * b) % m
  ELSE IF b = 0 THEN 0
  ELSE LET rest == mulmod((a + a) % m, b \div 2, m)
       IN  IF b % 2 = 1 THEN (rest + a) % m ELSE rest

\* 2^e modulo m, e >= 0.
RECURSIVE pow2mod(_, _)
pow2mod(e, m) ==
  IF e <= 30 THEN 2^e % m
  ELSE mulmod(2^30 % m, pow2mod(e - 30, m), m)

\* floor(log2(n / d)) for n, d > 0.
RECURSIVE floorlog2(_, _)
floorlog2(n, d) ==
  IF n >= 2 * d THEN floorlog2(n, 2 * d) + 1
  ELSE IF n < d THEN floorlog2(2 * n, d) - 1
  ELSE 0

\* The result of an operation, rounded: in units of its last binary place
\* the exact result is a multiple of m plus N (N taken modulo 2 * m, so that
\* N >= m tells that the multiple is odd); chat is its distance from n/d in
\* units of 1 / (d * 2^(e2 + t)), and t places are rounded away.
rounded(n, d, L0, e2, t, chat, m, N) ==
  LET R  == N % m
      up == \/ 2 * R > m
            \/ 2 * R = m /\ N >= m
      c2 == (chat + (IF up THEN m - R ELSE -R)) \div 2^t
      g  == GCD(n, d)
  IN  [num |-> n \div g, den |-> d \div g,
       exp |-> IF c2 = 0 THEN 52 - L0 ELSE e2,
       err |-> c2 \div g]

\* The same, from the number t of binary places that are rounded away.
rounded_places(n, d, L0, e2, t, chat) ==
  rounded(n, d, L0, e2, t, chat, d * 2^t,
          (mulmod(n % (d * 2^(t + 1)), pow2mod(e2 + t, d * 2^(t + 1)), d * 2^(t + 1))
             + chat) % (d * 2^(t + 1)))

\* The same, from the exponent e2 of the result: with e2 > e the result has
\* e2 - e more binary places than the operands, with e2 < e it has e - e2
\* fewer, which are rounded away.
rounded_at(n, d, c, e, L0, e2) ==
  rounded_places(n, d, L0, e2,
                 IF e2 < e THEN e - e2 ELSE 0,
                 IF e2 > e /\ c # 0 THEN c * 2^(e2 - e) ELSE c)

\* The same, from L0 = floor(log2(n/d)): the result is in the binade of n/d,
\* or in the one under it when n/d is a power of two and c < 0.
rounded_in_binade(n, d, c, e, L0) ==
  rounded_at(n, d, c, e, L0,
             IF c < 0 /\ (IF L0 >= 0 THEN n = d * 2^L0 ELSE n * 2^(-L0) = d)
             THEN 53 - L0 ELSE 52 - L0)

\* The double nearest to n/d + c / (d * 2^e), for n >= 0, d > 0 and a c that
\* is small against 2^e (the exact result of one operation on doubles).
nearest_double(n, d, c, e) ==
  IF n = 0 THEN [num |-> 0, den |-> 1, exp |-> 0, err |-> 0]
  ELSE IF c = 0 /\ 2^30 % (d \div GCD(n, d)) = 0
  THEN \* n/d is a double: nothing is rounded
       [num |-> n \div GCD(n, d), den |-> d \div GCD(n, d),
        exp |-> 52 - floorlog2(n, d), err |-> 0]
  ELSE rounded_in_binade(n, d, c, e, floorlog2(n, d))

\* float(x): the double nearest to the number x >= 0 (a JSON number read into
\* a float field).
float(x) == nearest_double(x.num, x.den, 0, 0)

\* float.__truediv__: y / T for a double y and an int T > 0.
float_truediv(y, T) == nearest_double(y.num, y.den * T, y.err, y.exp)

\* float.__rmul__: Q * y for an int Q >= 0 and a double y (1 * y is y).
float_mul(Q, y) ==
  IF Q = 1 THEN y ELSE nearest_double(y.num * Q, y.den, y.err * Q, y.exp)

\* float.__add__: y1 + y2.
float_add(y1, y2) ==
  IF y1.num = 0 THEN y2
  ELSE IF y2.num = 0 THEN y1
  ELSE LET a == IF y1.exp <= y2.exp THEN y1 ELSE y2
           b == IF y1.exp <= y2.exp THEN y2 ELSE y1
       IN  nearest_double(a.num * b.den + b.num * a.den, a.den * b.den,
                          2^(b.exp - a.exp) * b.den * a.err + a.den * b.err,
                          b.exp)

\* round(y, 2) of a double y >= 0, as a fraction: float.__round__ rounds the
\* exact binary value of y to the nearest multiple of 1/100, ties to the even
\* one.  A y that stands for a tie num/den = k/200 and is not exactly that
\* number goes to the side of its err.
round2(y) ==
  LET n    == y.num * 100
      q    == n \div y.den
      k    == 2 * (n % y.den) - y.den
      \* the sign of 100 * y - (q + 1/2)
      side == IF k # 0
              THEN IF y.exp > 30 \/ 2^y.exp > 200 * Abs(y.err)
                   THEN k ELSE k * 2^y.exp + 200 * y.err
              ELSE y.err
      up   == \/ side > 0
              \/ side = 0 /\ q % 2 = 1
  IN  Rat(IF up THEN q + 1 ELSE q, 100)

\* ------------------------------------------------------------ data model
\* Optional[T]: None, or a value v held as <<v>>.
None == <<>>

Some(v) == <<v>>

\* Mutant of InventoryItem: the default of min_stock is 1.
InventoryItem_min_stock_one ==
  [quantity |-> 0, unit_cost |-> float(RInt(0)), min_stock |-> 1]

\* InventoryItem(): the defaults of the three fields.
InventoryItem ==
  [quantity |-> 0, unit_cost |-> float(RInt(0)), min_stock |-> 0]

\* Mutant of status: the Atento test with < for <=.
status_strict(item) ==
  IF item.min_stock <= 0 THEN "OK"
  ELSE IF item.quantity <= 0 THEN "Bajo"
  ELSE IF item.quantity < item.min_stock THEN "Atento"
  ELSE "OK"

\* InventoryItem.status
status(item) ==
  IF item.min_stock <= 0 THEN "OK"
  ELSE IF item.quantity <= 0 THEN "Bajo"
  ELSE IF item.quantity <= item.min_stock THEN "Atento"
  ELSE "OK"

\* The field constraints of MovePayload, which the framework checks before
\* register_move runs.
MovePayloadValid(p) ==
  /\ p.type \in {"sale", "purchase"}
  /\ Len(p.product) >= 1
  /\ p.quantity > 0
  /\ p.total_cost # None => RLess(RInt(0), p.total_cost[1])
  /\ p.min_stock # None => p.min_stock[1] >= 0

\* raise HTTPException(status_code, detail)
HTTPException(code, detail) ==
  [status_code |-> code, body |-> [detail |-> detail]]

\* A 200 answer carrying body.
OkResponse(body) == [status_code |-> 200, body |-> body]

\* The answer of the framework to a payload that fails MovePayload.
ValidationError == HTTPException(422, "RequestValidationError")

\* ----------------------------------------------------------- operations
\* Mutant of product_key: the name is lower-cased but not trimmed.
product_key_no_strip(product) == lower(product)

\* Mutant of product_key: the name is trimmed but not lower-cased.
product_key_no_lower(product) == strip(product)

\* product.strip().lower(): the product key of a name, as _get_or_create_item
\* and register_move both compute it.
product_key(product) == lower(strip(product))

\* Mutant of get_or_create_item: a new item replaces the store
\* ("_inventory = {product_key: item}") where the code adds it to the store.
get_or_create_item_replaces_store(inv, product) ==
  LET key == product_key(product)
  IN  IF key \notin DOMAIN inv
      THEN [k \in {key} |-> InventoryItem]
      ELSE inv

\* _get_or_create_item: the store after the call; the item it returns is
\* the one stored under product_key(product).
get_or_create_item(inv, product) ==
  LET key == product_key(product)
  IN  IF key \notin DOMAIN inv
      THEN [k \in DOMAIN inv \cup {key} |->
              IF k = key THEN InventoryItem ELSE inv[k]]
      ELSE inv

\* Mutant of to_response: the unit cost is reported as stored, unrounded.
to_response_unrounded(product, item) ==
  [product   |-> product,
   quantity  |-> item.quantity,
   unit_cost |-> item.unit_cost,
   min_stock |-> item.min_stock,
   status    |-> status(item)]

\* _to_response
to_response(product, item) ==
  [product   |-> product,
   quantity  |-> item.quantity,
   unit_cost |-> round2(item.unit_cost),
   min_stock |-> item.min_stock,
   status    |-> status(item)]

\* Mutant of weighted_unit_cost: the unit cost of the latest purchase
\* replaces the average.
weighted_unit_cost_latest(item, payload) ==
  float_truediv(float(payload.total_cost[1]), payload.quantity)

\* Mutant of weighted_unit_cost: the plain mean of the old unit cost and the
\* unit cost of the purchase, not weighted by the quantities.
weighted_unit_cost_plain_mean(item, payload) ==
  LET unit_cost == float_truediv(float(payload.total_cost[1]), payload.quantity)
  IN  float_truediv(float_add(item.unit_cost, unit_cost), 2)

\* The weighted average cost an accepted purchase stores in item.unit_cost,
\* in the float arithmetic of lines 93 to 101.
weighted_unit_cost(item, payload) ==
  LET unit_cost   == float_truediv(float(payload.total_cost[1]), payload.quantity)
      total_units == item.quantity + payload.quantity
  IN  IF total_units = 0 THEN unit_cost
      ELSE LET existing_value == float_mul(item.quantity, item.unit_cost)
               new_value      == float_mul(payload.quantity, unit_cost)
           IN  float_truediv(float_add(existing_value, new_value), total_units)

\* Mutant of purchase_min_stock: "if payload.min_stock:" for
\* "if payload.min_stock is not None:", so that a supplied 0 is ignored.
purchase_min_stock_truthy(item, payload) ==
  IF payload.min_stock # None /\ payload.min_stock[1] # 0
  THEN payload.min_stock[1] ELSE item.min_stock

\* The min_stock of the item after an accepted purchase.
purchase_min_stock(item, payload) ==
  IF payload.min_stock # None THEN payload.min_stock[1] ELSE item.min_stock

\* Mutant of apply_purchase: "item.quantity = payload.quantity" for
\* "item.quantity += payload.quantity".
apply_purchase_overwrites_quantity(item, payload) ==
  [quantity  |-> payload.quantity,
   unit_cost |-> weighted_unit_cost(item, payload),
   min_stock |-> purchase_min_stock(item, payload)]

\* The item after the purchase branch of register_move has run to its end.
apply_purchase(item, payload) ==
  [quantity  |-> item.quantity + payload.quantity,
   unit_cost |-> weighted_unit_cost(item, payload),
   min_stock |-> purchase_min_stock(item, payload)]

\* Mutant of insufficient_stock: the stock check is missing.
insufficient_stock_never(item, payload) == FALSE

\* Mutant of insufficient_stock: the check is off by one.
insufficient_stock_off_by_one(item, payload) ==
  payload.quantity > item.quantity + 1

\* Mutant of insufficient_stock: the comparison is reversed.
insufficient_stock_reversed(item, payload) == payload.quantity < item.quantity

\* The stock check of the sale branch.
insufficient_stock(item, payload) == payload.quantity > item.quantity

\* Mutant of apply_sale: the sale applies the min_stock of the payload as a
\* purchase does.
apply_sale_sets_min_stock(item, payload) ==
  [quantity  |-> item.quantity - payload.quantity,
   unit_cost |-> item.unit_cost,
   min_stock |-> IF payload.min_stock # None THEN payload.min_stock[1]
                 ELSE item.min_stock]

\* Mutant of apply_sale: the sale that empties an item clears its unit cost.
apply_sale_clears_unit_cost(item, payload) ==
  [quantity  |-> item.quantity - payload.quantity,
   unit_cost |-> IF item.quantity = payload.quantity THEN float(RInt(0))
                 ELSE item.unit_cost,
   min_stock |-> item.min_stock]

\* The item after the sale branch of register_move has run to its end.
apply_sale(item, payload) ==
  [item EXCEPT !.quantity = item.quantity - payload.quantity]

\* register_move: the store and the answer after the call.
register_move(inv, payload) ==
  LET name == product_key(payload.product)
  IN  IF name = <<>>
      THEN [inventory |-> inv,
            response  |-> HTTPException(400, "El producto es obligatorio.")]
      ELSE
        LET inv1 == get_or_create_item(inv, name)
            key  == product_key(name)
            item == inv1[key]
        IN  IF payload.type = "purchase"
            THEN IF payload.total_cost = None
                 THEN [inventory |-> inv1,
                       response  |-> HTTPException(422, "El total gastado es obligatorio.")]
                 ELSE LET bought == apply_purchase(item, payload)
                      IN  [inventory |-> [inv1 EXCEPT ![key] = bought],
                           response  |-> OkResponse(to_response(strip(payload.product), bought))]
            ELSE IF insufficient_stock(item, payload)
                 THEN [inventory |-> inv1,
                       response  |-> HTTPException(400, "No hay suficiente stock para completar la venta.")]
                 ELSE LET sold == apply_sale(item, payload)
                      IN  [inventory |-> [inv1 EXCEPT ![key] = sold],
                           response  |-> OkResponse(to_response(strip(payload.product), sold))]

\* The route POST /api/move: the framework answers a payload that fails
\* MovePayload itself, any other payload goes to register_move.
post_move(inv, payload) ==
  IF ~MovePayloadValid(payload)
  THEN [inventory |-> inv, response |-> ValidationError]
  ELSE register_move(inv, payload)

\* Mutant of sorted: descending order.
RECURSIVE sorted_descending(_)
sorted_descending(keys) ==
  IF keys = {} THEN <<>>
  ELSE LET first == CHOOSE k \in keys : \A o \in keys \ {k} : str_lt(o, k)
       IN  <<first>> \o sorted_descending(keys \ {first})

\* sorted(_inventory.items()), as the sequence of its keys: the items are
\* never compared because the keys are distinct.
RECURSIVE sorted(_)
sorted(keys) ==
  IF keys = {} THEN <<>>
  ELSE LET first == CHOOSE k \in keys : \A o \in keys \ {k} : str_lt(k, o)
       IN  <<first>> \o sorted(keys \ {first})

\* get_inventory
get_inventory(inv) ==
  LET order == sorted(DOMAIN inv)
  IN  [i \in 1..Len(order) |-> to_response(title(order[i]), inv[order[i]])]

\* Mutant of reset_inventory: a new dict is bound to a local name and the
\* store keeps its items.
reset_inventory_rebinds_local(inv) == inv

\* reset_inventory: the store after _inventory.clear().
reset_inventory(inv) == [k \in {} |-> InventoryItem]

\* ---------------------------------------------------------------- inputs
\* Product names of the requests: two spellings of the key "ab" and one of
\* the key "b".
Products == { <<"a", "B">>, <<" ", "A", "b", " ">>, <<"B", "\t">> }

Quantities == {1, 2}

PurchasePayloads ==
  [type : {"purchase"}, product : Products, quantity : Quantities,
   total_cost : {None, Some(RInt(1)), Some(Rat(1, 8))},
   min_stock : {None, Some(0), Some(1)}]

SalePayloads ==
  [type : {"sale"}, product : Products, quantity : Quantities,
   total_cost : {None}, min_stock : {None}]
  \cup
  [type : {"sale"}, product : Products, quantity : Quantities,
   total_cost : {Some(RInt(1))}, min_stock : {Some(1)}]

\* Payloads whose product name is whitespace only.
BlankPayloads ==
  { [type |-> "purchase", product |-> <<" ">>, quantity |-> 1,
     total_cost |-> Some(RInt(1)), min_stock |-> Some(1)],
    [type |-> "sale", product |-> <<"\t", " ">>, quantity |-> 1,
     total_cost |-> None, min_stock |-> None] }

\* Payloads that break one field constraint of MovePayload each.
InvalidPayloads ==
  { [type |-> "sale", product |-> <<>>, quantity |-> 1,
     total_cost |-> None, min_stock |-> None],
    [type |-> "purchase", product |-> <<"b">>, quantity |-> 0,
     total_cost |-> Some(RInt(1)), min_stock |-> None],
    [type |-> "sale", product |-> <<"b">>, quantity |-> -1,
     total_cost |-> None, min_stock |-> None],
    [type |-> "purchase", product |-> <<"b">>, quantity |-> 1,
     total_cost |-> Some(RInt(0)), min_stock |-> None],
    [type |-> "purchase", product |-> <<"b">>, quantity |-> 1,
     total_cost |-> Some(RInt(1)), min_stock |-> Some(-1)],
    [type |-> "refund", product |-> <<"b">>, quantity |-> 1,
     total_cost |-> None, min_stock |-> None] }

Payloads ==
  PurchasePayloads \cup SalePayloads \cup BlankPayloads \cup InvalidPayloads

\* ----------------------------------------------------------------- state
VARIABLES
  inventory,   \* _inventory: product key -> InventoryItem
  endpoint,    \* the route that served the last request ("" before the first)
  response,    \* the answer to the last request
  ledger,      \* history: per key, the units purchased and sold and the
               \* money spent by the accepted moves since the last reset
  calls        \* the register_move calls that run side by side on the
               \* worker threads of the server (none when the requests are
               \* served one after the other)

vars == <<inventory, endpoint, response, ledger, calls>>

\* No calls run side by side.
NoCalls == [atomic |-> TRUE, start |-> <<>>, thread |-> <<>>]

NoLedger == [purchased |-> 0, sold |-> 0, spent |-> RInt(0)]

RECURSIVE TotalPurchased(_)
TotalPurchased(l) ==
  IF DOMAIN l = {} THEN 0
  ELSE LET k == CHOOSE x \in DOMAIN l : TRUE
       IN  l[k].purchased + TotalPurchased([x \in DOMAIN l \ {k} |-> l[x]])

\* The ledger after a move on payload that took the store to inv2 and was
\* answered with resp.
Booked(l, inv2, payload, resp) ==
  LET key == product_key(payload.product)
  IN  [k \in DOMAIN inv2 |->
        LET old == IF k \in DOMAIN l THEN l[k] ELSE NoLedger
        IN  IF k = key /\ resp.status_code = 200
            THEN IF payload.type = "purchase"
                 THEN [old EXCEPT !.purchased = @ + payload.quantity,
                                  !.spent = Reduced(RAdd(@, payload.total_cost[1]))]
                 ELSE [old EXCEPT !.sold = @ + payload.quantity]
            ELSE old]

Init ==
  /\ inventory = [k \in {} |-> InventoryItem]
  /\ endpoint = ""
  /\ response = [status_code |-> 0, body |-> None]
  /\ ledger = [k \in {} |-> NoLedger]
  /\ calls = NoCalls

\* POST /api/move
PostMove(payload) ==
  /\ endpoint' = "/api/move"
  /\ \E out \in {post_move(inventory, payload)} :
       /\ inventory' = out.inventory
       /\ response' = out.response
       /\ ledger' = Booked(ledger, out.inventory, payload, out.response)
       /\ TotalPurchased(ledger') <= MaxUnits
  /\ UNCHANGED calls

\* GET /api/inventory
GetInventory ==
  /\ endpoint' = "/api/inventory"
  /\ response' = OkResponse(get_inventory(inventory))
  /\ UNCHANGED <<inventory, ledger, calls>>

\* POST /api/reset
PostReset ==
  /\ endpoint' = "/api/reset"
  /\ inventory' = reset_inventory(inventory)
  /\ response' = OkResponse([message |-> "Inventario reiniciado"])
  /\ ledger' = [k \in {} |-> NoLedger]
  /\ UNCHANGED calls

Next ==
  \/ \E payload \in Payloads : PostMove(payload)
  \/ GetInventory
  \/ PostReset

Spec == Init /\ [][Next]_vars

\* ------------------------------------------------- two calls side by side
\* register_move, get_inventory and reset_inventory are plain "def" routes:
\* the server runs each call on a worker thread, and two calls can run side
\* by side on the one _inventory.  A call is followed line by line: a step is
\* one line of the source that reads or writes the dictionary or an item,
\* together with the lines before it that touch locals only;
\* "item.quantity += q" and "item.quantity -= q" each read the attribute and
\* then write it.  An item is an object: a call keeps the object it has
\* bound when another call stores a new object under the key (line 68) or
\* clears the dictionary (line 125).  With calls.atomic the calls are
\* serialised: each runs from its first to its last line in one step.

\* The moves of the calls: purchases and sales of the product "aB".
ConcurrentPayloads ==
  {p \in PurchasePayloads \cup SalePayloads :
     /\ p.product = <<"a", "B">>
     /\ p.min_stock \in {None, Some(1)}
     /\ p.type = "sale" => p.total_cost = None}

\* The stores the two calls start from: the empty store, and the item "ab"
\* with 0 to MaxUnits units in stock, bought at 1 per unit.
StartStores ==
  {[k \in {} |-> InventoryItem]}
  \cup
  {[k \in {<<"a", "b">>} |->
      [quantity |-> q, unit_cost |-> float(RInt(1)), min_stock |-> 0]] :
     q \in 0..MaxUnits}

Threads == {1, 2}

\* The locals of a call that has not run its first line: key is the product
\* key of the item at hand, holds the keys whose item object the call has
\* bound, own the bound objects that are no longer in the dictionary, todo
\* and out the keys left and the entries built in get_inventory.
NewCall(route, payload, pc) ==
  [route |-> route, payload |-> payload, pc |-> pc, response |-> None,
   key |-> <<>>, holds |-> {}, own |-> [k \in {} |-> InventoryItem],
   total_units |-> 0, value |-> float(RInt(0)), loaded |-> 0,
   quantity |-> 0, unit_cost |-> RInt(0), min_stock |-> 0,
   todo |-> <<>>, out |-> <<>>]

\* The calls that can run side by side with a move.
NewCalls ==
  {NewCall("move", p, "l84") : p \in ConcurrentPayloads}
  \cup {NewCall("inventory", None, "l119"), NewCall("reset", None, "l125")}

InitConcurrent ==
  /\ inventory \in StartStores
  /\ endpoint = ""
  /\ response = [status_code |-> 0, body |-> None]
  /\ ledger = [k \in {} |-> NoLedger]
  /\ \E atomic \in BOOLEAN : \E p \in ConcurrentPayloads : \E other \in NewCalls :
       calls = [atomic |-> atomic, start |-> inventory,
                thread |-> <<NewCall("move", p, "l84"), other>>]

\* The call of thread t is at line pc of a run that is not serialised.
At(t, pc) == ~calls.atomic /\ calls.thread[t].pc = pc

\* The item object at hand in the call of thread t.
item_of(t) ==
  LET call == calls.thread[t]
  IN  IF call.key \in DOMAIN call.own THEN call.own[call.key]
      ELSE inventory[call.key]

\* The call, ended with the answer resp.
Returned(call, resp) ==
  [NewCall(call.route, call.payload, "done") EXCEPT !.response = resp]

\* The call of thread t ends with the answer resp.
Return(t, resp) ==
  [calls EXCEPT !.thread[t] = Returned(calls.thread[t], resp)]

\* The call of thread t moves on to line pc.
Goto(t, pc) == [calls EXCEPT !.thread[t].pc = pc]

\* The call after the objects stored under the keys ks have left the
\* dictionary: it keeps those it has bound.
Keeping(call, ks) ==
  LET kept == DOMAIN call.own \cup (call.holds \cap ks \cap DOMAIN inventory)
  IN  [call EXCEPT !.own = [k \in kept |-> IF k \in DOMAIN call.own
                                           THEN call.own[k] ELSE inventory[k]]]

\* The calls after thread t has taken the objects under the keys ks out of
\* the dictionary and has itself become the call after.
Displaced(t, ks, after) ==
  [calls EXCEPT !.thread = [u \in DOMAIN calls.thread |->
                              IF u = t THEN after
                              ELSE Keeping(calls.thread[u], ks)]]

\* The call of thread t writes new to the item at hand (in the dictionary,
\* or the object it alone holds) and moves on to line pc.
Written(t, new, pc) ==
  LET call == calls.thread[t]
  IN  IF call.key \in DOMAIN call.own
      THEN /\ calls' = [calls EXCEPT !.thread[t].pc = pc,
                                      !.thread[t].own[call.key] = new]
           /\ UNCHANGED inventory
      ELSE /\ calls' = Goto(t, pc)
           /\ inventory' = [inventory EXCEPT ![call.key] = new]

\* Lines 84-88 and 66-67: the product key, and the test whether it is in the
\* dictionary.
Begin(t) ==
  /\ At(t, "l84")
  /\ LET name == product_key(calls.thread[t].payload.product)
     IN  calls' =
           IF name = <<>>
           THEN Return(t, HTTPException(400, "El producto es obligatorio."))
           ELSE [calls EXCEPT !.thread[t].key = product_key(name),
                              !.thread[t].pc =
                                IF product_key(name) \notin DOMAIN inventory
                                THEN "l68" ELSE "l69"]
  /\ UNCHANGED <<inventory, endpoint, response, ledger>>

\* Line 68: a new InventoryItem() is stored under the key; it replaces the
\* object that another call has stored there since the test of line 67.
CreateItem(t) ==
  /\ At(t, "l68")
  /\ LET call == calls.thread[t]
     IN  /\ inventory' = [k \in DOMAIN inventory \cup {call.key} |->
                            IF k = call.key THEN InventoryItem ELSE inventory[k]]
         /\ calls' = Displaced(t, {call.key}, [call EXCEPT !.pc = "l69"])
  /\ UNCHANGED <<endpoint, response, ledger>>

\* Line 69 and lines 90-93: the object under the key is bound to item (a
\* KeyError, answered 500, when the key has left the dictionary); the branch
\* on the type; the purchase without total_cost is rejected.
BindItem(t) ==
  /\ At(t, "l69")
  /\ LET call    == calls.thread[t]
         payload == call.payload
     IN  calls' =
           IF call.key \notin DOMAIN inventory
           THEN Return(t, HTTPException(500, "Internal Server Error"))
           ELSE IF payload.type = "purchase" /\ payload.total_cost = None
           THEN Return(t, HTTPException(422, "El total gastado es obligatorio."))
           ELSE [calls EXCEPT !.thread[t].holds = {call.key},
                              !.thread[t].pc = IF payload.type = "purchase"
                                               THEN "l95" ELSE "l106"]
  /\ UNCHANGED <<inventory, endpoint, response, ledger>>

\* Line 95: total_units = item.quantity + payload.quantity.
PurchaseTotalUnits(t) ==
  /\ At(t, "l95")
  /\ calls' = [calls EXCEPT !.thread[t].pc = "l96",
                            !.thread[t].total_units =
                              item_of(t).quantity + calls.thread[t].payload.quantity]
  /\ UNCHANGED <<inventory, endpoint, response, ledger>>

\* Lines 96-100: the unit cost to store, from the total_units of line 95 and
\* the item as it is now.
PurchaseAverage(t) ==
  /\ At(t, "l96")
  /\ LET call        == calls.thread[t]
         payload     == call.payload
         unit_cost   == float_truediv(float(payload.total_cost[1]), payload.quantity)
         total_units == call.total_units
         existing_value == float_mul(item_of(t).quantity, item_of(t).unit_cost)
         new_value      == float_mul(payload.quantity, unit_cost)
     IN  calls' = [calls EXCEPT !.thread[t].pc = "l101",
                                !.thread[t].value =
                                  IF total_units = 0 THEN unit_cost
                                  ELSE float_truediv(float_add(existing_value, new_value),
                                                     total_units)]
  /\ UNCHANGED <<inventory, endpoint, response, ledger>>

\* Line 97 or 101: item.unit_cost is written.
PurchaseStoreUnitCost(t) ==
  /\ At(t, "l101")
  /\ Written(t, [item_of(t) EXCEPT !.unit_cost = calls.thread[t].value], "l102")
  /\ UNCHANGED <<endpoint, response, ledger>>

\* Line 102, "item.quantity += payload.quantity": item.quantity is read.
PurchaseLoadQuantity(t) ==
  /\ At(t, "l102")
  /\ calls' = [calls EXCEPT !.thread[t].pc = "l102_store",
                            !.thread[t].loaded = item_of(t).quantity]
  /\ UNCHANGED <<inventory, endpoint, response, ledger>>

\* Line 102: the sum is written to item.quantity.
PurchaseStoreQuantity(t) ==
  /\ At(t, "l102_store")
  /\ Written(t, [item_of(t) EXCEPT !.quantity =
                   calls.thread[t].loaded + calls.thread[t].payload.quantity],
             "l103")
  /\ UNCHANGED <<endpoint, response, ledger>>

\* Lines 103-104: min_stock is written when the payload supplies it.
PurchaseMinStock(t) ==
  /\ At(t, "l103")
  /\ IF calls.thread[t].payload.min_stock # None
     THEN Written(t, [item_of(t) EXCEPT !.min_stock =
                        calls.thread[t].payload.min_stock[1]], "l75")
     ELSE calls' = Goto(t, "l75") /\ UNCHANGED inventory
  /\ UNCHANGED <<endpoint, response, ledger>>

\* Lines 106-110: the stock check of the sale.
SaleCheckStock(t) ==
  /\ At(t, "l106")
  /\ calls' = IF insufficient_stock(item_of(t), calls.thread[t].payload)
              THEN Return(t, HTTPException(400, "No hay suficiente stock para completar la venta."))
              ELSE Goto(t, "l111")
  /\ UNCHANGED <<inventory, endpoint, response, ledger>>

\* Line 111, "item.quantity -= payload.quantity": item.quantity is read.
SaleLoadQuantity(t) ==
  /\ At(t, "l111")
  /\ calls' = [calls EXCEPT !.thread[t].pc = "l111_store",
                            !.thread[t].loaded = item_of(t).quantity]
  /\ UNCHANGED <<inventory, endpoint, response, ledger>>

\* Line 111: the difference is written to item.quantity.
SaleStoreQuantity(t) ==
  /\ At(t, "l111_store")
  /\ Written(t, [item_of(t) EXCEPT !.quantity =
                   calls.thread[t].loaded - calls.thread[t].payload.quantity],
             "l75")
  /\ UNCHANGED <<endpoint, response, ledger>>

\* Line 119: sorted(_inventory.items()), the keys and the item objects that
\* get_inventory goes through.
ListItems(t) ==
  /\ At(t, "l119")
  /\ LET order == sorted(DOMAIN inventory)
     IN  calls' =
           IF order = <<>> THEN Return(t, OkResponse(<<>>))
           ELSE [calls EXCEPT !.thread[t].holds = DOMAIN inventory,
                              !.thread[t].todo = Tail(order),
                              !.thread[t].key = Head(order),
                              !.thread[t].pc = "l75"]
  /\ UNCHANGED <<inventory, endpoint, response, ledger>>

\* Line 75 of _to_response: quantity=item.quantity.
ReadQuantity(t) ==
  /\ At(t, "l75")
  /\ calls' = [calls EXCEPT !.thread[t].pc = "l76",
                            !.thread[t].quantity = item_of(t).quantity]
  /\ UNCHANGED <<inventory, endpoint, response, ledger>>

\* Line 76: unit_cost=round(item.unit_cost, 2).
ReadUnitCost(t) ==
  /\ At(t, "l76")
  /\ calls' = [calls EXCEPT !.thread[t].pc = "l77",
                            !.thread[t].unit_cost = round2(item_of(t).unit_cost)]
  /\ UNCHANGED <<inventory, endpoint, response, ledger>>

\* Line 77: min_stock=item.min_stock.
ReadMinStock(t) ==
  /\ At(t, "l77")
  /\ calls' = [calls EXCEPT !.thread[t].pc = "l17",
                            !.thread[t].min_stock = item_of(t).min_stock]
  /\ UNCHANGED <<inventory, endpoint, response, ledger>>

\* The calls after the property status has returned s in the call of thread
\* t: the entry of _to_response is complete; register_move returns it,
\* get_inventory appends it and goes on to its next item.
WithStatus(t, s) ==
  LET call  == calls.thread[t]
      entry == [product   |-> IF call.route = "move"
                              THEN strip(call.payload.product)
                              ELSE title(call.key),
                quantity  |-> call.quantity,
                unit_cost |-> call.unit_cost,
                min_stock |-> call.min_stock,
                status    |-> s]
  IN  IF call.route = "move" THEN Return(t, OkResponse(entry))
      ELSE IF call.todo = <<>>
      THEN Return(t, OkResponse(Append(call.out, entry)))
      ELSE [calls EXCEPT !.thread[t].out = Append(call.out, entry),
                         !.thread[t].key = Head(call.todo),
                         !.thread[t].todo = Tail(call.todo),
                         !.thread[t].pc = "l75"]

\* Lines 78 and 17-18: status=item.status; "if self.min_stock <= 0".
StatusMinStock(t) ==
  /\ At(t, "l17")
  /\ calls' = IF item_of(t).min_stock <= 0 THEN WithStatus(t, "OK")
              ELSE Goto(t, "l19")
  /\ UNCHANGED <<inventory, endpoint, response, ledger>>

\* Lines 19-20: "if self.quantity <= 0".
StatusQuantity(t) ==
  /\ At(t, "l19")
  /\ calls' = IF item_of(t).quantity <= 0 THEN WithStatus(t, "Bajo")
              ELSE Goto(t, "l21")
  /\ UNCHANGED <<inventory, endpoint, response, ledger>>

\* Lines 21-23: "if self.quantity <= self.min_stock".
StatusAtento(t) ==
  /\ At(t, "l21")
  /\ calls' = WithStatus(t, IF item_of(t).quantity <= item_of(t).min_stock
                            THEN "Atento" ELSE "OK")
  /\ UNCHANGED <<inventory, endpoint, response, ledger>>

\* Lines 125-126: _inventory.clear(); the calls that have bound an item keep
\* the object.
ClearStore(t) ==
  /\ At(t, "l125")
  /\ inventory' = reset_inventory(inventory)
  /\ calls' = Displaced(t, DOMAIN inventory,
                        Returned(calls.thread[t],
                                 OkResponse([message |-> "Inventario reiniciado"])))
  /\ UNCHANGED <<endpoint, response, ledger>>

\* The store and the answer after the call has run alone, from its first
\* line to its last.
served(inv, call) ==
  CASE call.route = "move" -> register_move(inv, call.payload)
    [] call.route = "inventory" ->
         [inventory |-> inv, response |-> OkResponse(get_inventory(inv))]
    [] call.route = "reset" ->
         [inventory |-> reset_inventory(inv),
          response  |-> OkResponse([message |-> "Inventario reiniciado"])]

\* A serialised call.
CallAtomic(t) ==
  /\ calls.atomic
  /\ calls.thread[t].pc \in {"l84", "l119", "l125"}
  /\ \E out \in {served(inventory, calls.thread[t])} :
       /\ inventory' = out.inventory
       /\ calls' = Return(t, out.response)
  /\ UNCHANGED <<endpoint, response, ledger>>

NextConcurrent ==
  \E t \in Threads :
    \/ Begin(t)
    \/ CreateItem(t)
    \/ BindItem(t)
    \/ PurchaseTotalUnits(t)
    \/ PurchaseAverage(t)
    \/ PurchaseStoreUnitCost(t)
    \/ PurchaseLoadQuantity(t)
    \/ PurchaseStoreQuantity(t)
    \/ PurchaseMinStock(t)
    \/ SaleCheckStock(t)
    \/ SaleLoadQuantity(t)
    \/ SaleStoreQuantity(t)
    \/ ListItems(t)
    \/ ReadQuantity(t)
    \/ ReadUnitCost(t)
    \/ ReadMinStock(t)
    \/ StatusMinStock(t)
    \/ StatusQuantity(t)
    \/ StatusAtento(t)
    \/ ClearStore(t)
    \/ CallAtomic(t)

SpecConcurrent == InitConcurrent /\ [][NextConcurrent]_vars

\* ================================================================ claims
\* The set S, enumerated once (a filtered set is otherwise filtered anew
\* each time it is used).
Enumerated(S) == {x : x \in S}

\* The moves register_move handles: payloads that pass MovePayload.
ValidPayloads == Enumerated({p \in Payloads : MovePayloadValid(p)})

\* The moves that reach the store: valid, with a product name that is not blank.
NamedPayloads == Enumerated({p \in ValidPayloads : strip(p.product) # <<>>})

\* The sales among them.
NamedSales == Enumerated({p \in NamedPayloads : p.type = "sale"})

\* A purchase that carries a total_cost of 1 and no min_stock, paired with a sale
\* (of type, product and quantity only) that names the same product in
\* another spelling.
RespelledPairs ==
  Enumerated({ps \in NamedPayloads \X NamedSales :
                /\ ps[1].type = "purchase"
                /\ ps[1].total_cost = Some(RInt(1))
                /\ ps[1].min_stock = None
                /\ ps[2].total_cost = None
                /\ ps[2].product # ps[1].product
                /\ lower(strip(ps[2].product)) = lower(strip(ps[1].product))})

\* A rejection of POST /api/move: a 400 or a 422 answer.
Rejection(resp) == resp.status_code \in {400, 422}

InsufficientStock ==
  HTTPException(400, "No hay suficiente stock para completar la venta.")

\* A 200 answer of POST /api/move is the last answer.
MoveAccepted == endpoint = "/api/move" /\ response.status_code = 200

\* ---------------------------------------------------------------- C1
\* C1: every move that register_move rejects (blank product name, purchase
\* without total_cost, sale of more than the stock) leaves the whole store
\* unchanged: the same product keys, and the same quantity, unit_cost and
\* min_stock of every item, before and after the call; also when the key of
\* the move is not yet in the store.
C1_RejectedMoveLeavesStoreUnchanged ==
  [][(endpoint' = "/api/move" /\ Rejection(response')) => inventory' = inventory]_vars

\* ---------------------------------------------------------------- C2
\* C2: in every state reachable from the empty store by moves (accepted or
\* rejected), listings and resets, every item's quantity is >= 0.
C2_QuantityNeverNegative ==
  \A k \in DOMAIN inventory : inventory[k].quantity >= 0

\* An accepted sale has emptied an item, and a sale was then rejected.
C2_Witness ==
  /\ endpoint = "/api/move"
  /\ response = InsufficientStock
  /\ \E k \in DOMAIN inventory :
       /\ inventory[k].quantity = 0
       /\ ledger[k].sold = ledger[k].purchased
       /\ ledger[k].sold > 0

\* ---------------------------------------------------------------- C3
\* C3: a sale whose quantity is greater than the item's current quantity is
\* answered with the 400 error "insufficient stock" and leaves that item's
\* quantity, unit_cost and min_stock as they were before the call.
C3_OversoldSaleRejected ==
  \A p \in NamedSales :
    \A out \in {post_move(inventory, p)} :
      LET key == lower(strip(p.product))
      IN  /\ (key \in DOMAIN inventory /\ p.quantity > inventory[key].quantity)
              => /\ out.response = InsufficientStock
                 /\ out.inventory[key] = inventory[key]
          /\ key \notin DOMAIN inventory
              => out.response = InsufficientStock

\* A sale has been rejected for an item that holds stock.
C3_Witness ==
  /\ endpoint = "/api/move"
  /\ response = InsufficientStock
  /\ \E k \in DOMAIN inventory :
       /\ inventory[k].quantity = 1
       /\ inventory[k].min_stock = 1
       /\ inventory[k].unit_cost = float(Rat(1, 8))

\* ---------------------------------------------------------------- C4
\* C4: a sale with a product name that is not blank and with
\* 0 < quantity <= the item's current quantity is accepted, takes exactly the
\* sold amount off that item's quantity, leaves its unit_cost and min_stock
\* unchanged (also when the payload carries total_cost or min_stock), and
\* leaves every other item and the set of keys unchanged.
C4_SaleWithinStock ==
  \A p \in NamedSales :
    \A out \in {post_move(inventory, p)} :
      LET key == lower(strip(p.product))
      IN  (/\ key \in DOMAIN inventory
           /\ 0 < p.quantity
           /\ p.quantity <= inventory[key].quantity)
          => /\ out.response.status_code = 200
             /\ DOMAIN out.inventory = DOMAIN inventory
             /\ out.inventory[key].quantity = inventory[key].quantity - p.quantity
             /\ out.inventory[key].unit_cost = inventory[key].unit_cost
             /\ out.inventory[key].min_stock = inventory[key].min_stock
             /\ \A o \in DOMAIN inventory \ {key} : out.inventory[o] = inventory[o]

\* A sale of part of the stock of one item has been accepted while another
\* item is in the store.
C4_Witness ==
  /\ MoveAccepted
  /\ Cardinality(DOMAIN inventory) = 2
  /\ \E k \in DOMAIN inventory :
       /\ k = lower(response.body.product)
       /\ ledger[k].purchased = 2
       /\ ledger[k].sold = 1
       /\ response.body.quantity = 1
       /\ inventory[k].min_stock = 0

\* ---------------------------------------------------------------- C5
\* C5: after accepted purchases only (no accepted sale) on one key, starting
\* from an absent or freshly created item, the item's unit_cost is the sum of
\* the total costs divided by the sum of the quantities (exact arithmetic),
\* and its quantity is the sum of the quantities.
C5_RunningWeightedAverage ==
  \A k \in DOMAIN inventory :
    (ledger[k].sold = 0 /\ ledger[k].purchased > 0)
    => /\ inventory[k].quantity = ledger[k].purchased
       /\ inventory[k].unit_cost.num * ledger[k].spent.den * ledger[k].purchased
            = ledger[k].spent.num * inventory[k].unit_cost.den

\* Two purchases of one unit each, at costs 1 and 0.125, have been accepted.
C5_Witness ==
  /\ MoveAccepted
  /\ \E k \in DOMAIN inventory :
       /\ ledger[k].sold = 0
       /\ ledger[k].purchased = 2
       /\ ledger[k].spent = Rat(9, 8)
       /\ inventory[k].unit_cost = float(Rat(9, 16))

\* ---------------------------------------------------------------- C6
\* C6: product identity is the trimmed, lower-cased name.  The store holds
\* one item per normalized key (every key of the store is its own
\* normalization and is not blank); a move touches the item of the
\* normalized name only; a purchase under one spelling followed by a sale
\* under another spelling of the same name changes one quantity; and the
\* listing has one entry per normalized key.
C6_OneItemPerNormalizedKey ==
  /\ \A k \in DOMAIN inventory : k # <<>> /\ lower(strip(k)) = k
  /\ Len(get_inventory(inventory))
       = Cardinality({lower(strip(k)) : k \in DOMAIN inventory})
  /\ \A p \in NamedPayloads :
       \A out \in {post_move(inventory, p)} :
         LET key == lower(strip(p.product))
         IN  /\ DOMAIN out.inventory = DOMAIN inventory \cup {key}
             /\ \A o \in DOMAIN inventory \ {key} : out.inventory[o] = inventory[o]
  /\ \A ps \in RespelledPairs :
       \A out \in {post_move(inventory, ps[1])} :
         LET key == lower(strip(ps[1].product))
         IN  ps[2].quantity <= out.inventory[key].quantity
             => \A end \in {post_move(out.inventory, ps[2])} :
                  /\ end.response.status_code = 200
                  /\ DOMAIN end.inventory = DOMAIN out.inventory
                  /\ end.inventory[key].quantity
                       = (IF key \in DOMAIN inventory
                          THEN inventory[key].quantity ELSE 0)
                         + ps[1].quantity - ps[2].quantity

\* A sale spelled "Ab" has been accepted on the item "ab", which is the one
\* item of the store.
C6_Witness ==
  /\ MoveAccepted
  /\ response.body.product = <<"A", "b">>
  /\ DOMAIN inventory = {<<"a", "b">>}
  /\ ledger[<<"a", "b">>].sold = 1
  /\ inventory[<<"a", "b">>].quantity = 0

\* ---------------------------------------------------------------- C7
\* C7: the status is a function of (quantity, min_stock) only:
\* min_stock <= 0 gives OK; otherwise quantity <= 0 gives Bajo; otherwise
\* quantity <= min_stock gives Atento; otherwise OK.  It holds for every item
\* of the store, whatever its unit_cost, and for the status in every answer
\* to a move and in every entry of a listing.
StatusRule(quantity, min_stock) ==
  CASE min_stock <= 0 -> "OK"
    [] min_stock > 0 /\ quantity <= 0 -> "Bajo"
    [] min_stock > 0 /\ quantity > 0 /\ quantity <= min_stock -> "Atento"
    [] min_stock > 0 /\ quantity > min_stock -> "OK"

C7_StatusRule ==
  /\ \A k \in DOMAIN inventory :
       \A u \in {inventory[k].unit_cost, float(RInt(0)), float(Rat(7, 3))} :
         status([inventory[k] EXCEPT !.unit_cost = u])
           = StatusRule(inventory[k].quantity, inventory[k].min_stock)
  /\ MoveAccepted
     => response.body.status
          = StatusRule(response.body.quantity, response.body.min_stock)
  /\ endpoint = "/api/inventory"
     => \A i \in 1..Len(response.body) :
          response.body[i].status
            = StatusRule(response.body[i].quantity, response.body[i].min_stock)

\* A listing shows one item as Atento (quantity = min_stock) and one as Bajo.
C7_Witness ==
  /\ endpoint = "/api/inventory"
  /\ Len(response.body) = 2
  /\ \E i, j \in 1..2 :
       /\ response.body[i].status = "Atento"
       /\ response.body[i].quantity = response.body[i].min_stock
       /\ response.body[j].status = "Bajo"

\* ---------------------------------------------------------------- C8
\* C8: reset is total and idempotent: it can always be called, it yields the
\* empty store from any store, a second reset in a row yields the same empty
\* store, and a listing taken right after a reset is the empty list.
C8_ResetIdempotent ==
  [][/\ ENABLED PostReset
     /\ endpoint' = "/api/reset"
        => /\ DOMAIN inventory' = {}
           /\ response' = OkResponse([message |-> "Inventario reiniciado"])
     /\ (endpoint = "/api/reset" /\ endpoint' = "/api/reset")
        => inventory' = inventory
     /\ (endpoint = "/api/reset" /\ endpoint' = "/api/inventory")
        => response' = OkResponse(<<>>)]_vars

\* A reset has been served and the store is empty.
C8_Witness ==
  /\ endpoint = "/api/reset"
  /\ response = OkResponse([message |-> "Inventario reiniciado"])
  /\ DOMAIN inventory = {}

\* ---------------------------------------------------------------- C9
\* C9: a listing returns one entry per product key of the store, in strictly
\* ascending order of the normalized key, each entry with the quantity,
\* min_stock and status of its item, and it does not change the store.
C9_ListingSortedAndComplete ==
  [][endpoint' = "/api/inventory"
     => /\ inventory' = inventory
        /\ response'.status_code = 200
        /\ LET entries == response'.body
           IN  /\ Len(entries) = Cardinality(DOMAIN inventory)
               /\ {lower(entries[i].product) : i \in 1..Len(entries)}
                    = DOMAIN inventory
               /\ \A i \in 1..Len(entries) :
                    LET item == inventory[lower(entries[i].product)]
                    IN  /\ entries[i].quantity = item.quantity
                        /\ entries[i].min_stock = item.min_stock
                        /\ entries[i].status
                             = StatusRule(item.quantity, item.min_stock)
               /\ \A i, j \in 1..Len(entries) :
                    i < j => str_lt(lower(entries[i].product),
                                    lower(entries[j].product))]_vars

\* A listing of a store with the items "ab" and "b" has been returned.
C9_Witness ==
  /\ endpoint = "/api/inventory"
  /\ Len(response.body) = 2
  /\ response.body[1].product = <<"A", "b">>
  /\ response.body[2].product = <<"B">>
  /\ response.body[1].quantity = 1
  /\ response.body[2].quantity = 1

\* --------------------------------------------------------------- C10
\* C10: an accepted purchase that supplies min_stock sets the item's
\* min_stock to the supplied value; every other move (an accepted purchase
\* without min_stock, an accepted or rejected sale with or without min_stock
\* in the payload, a rejected purchase) leaves the min_stock of every item
\* unchanged, a new item having min_stock 0; no move changes the min_stock
\* of an item other than its own.
C10_MinStockOnlyByPurchase ==
  \A p \in Payloads :
    \A out \in {post_move(inventory, p)} :
      LET key      == lower(strip(p.product))
          supplied == /\ p.type = "purchase"
                      /\ out.response.status_code = 200
                      /\ p.min_stock # None
          before(k) == IF k \in DOMAIN inventory
                       THEN inventory[k].min_stock ELSE 0
      IN  \A k \in DOMAIN out.inventory :
            out.inventory[k].min_stock
              = IF supplied /\ k = key THEN p.min_stock[1] ELSE before(k)

\* The one purchase accepted for an item has set its min_stock to 1 (only a
\* purchase that supplies it can), and the other item, purchased as well,
\* keeps min_stock 0.
C10_Witness ==
  /\ MoveAccepted
  /\ response.body.min_stock = 1
  /\ \E k, o \in DOMAIN inventory :
       /\ k = lower(response.body.product)
       /\ inventory[k].min_stock = 1
       /\ ledger[k].purchased = 1
       /\ ledger[k].sold = 0
       /\ o # k
       /\ ledger[o].purchased = 1
       /\ inventory[o].min_stock = 0

\* --------------------------------------------------------------- C11
\* The moves that reach the store, each with the product key of its name.
KeyedPayloads ==
  Enumerated({<<p, lower(strip(p.product))>> : p \in NamedPayloads})

\* C11: an item is created by the first move that names its key, purchase or
\* sale: after a move with a non-blank product name whose key was absent, the
\* store holds the keys it held and that key, and when the move was a sale
\* the new item has quantity 0, unit_cost 0 and min_stock 0.
C11_CreatedOnFirstMove ==
  \A pk \in KeyedPayloads :
    pk[2] \notin DOMAIN inventory =>
      \A out \in {post_move(inventory, pk[1])} :
        /\ DOMAIN out.inventory = DOMAIN inventory \cup {pk[2]}
        /\ pk[1].type = "sale" =>
             /\ out.inventory[pk[2]].quantity = 0
             /\ out.inventory[pk[2]].unit_cost = float(RInt(0))
             /\ out.inventory[pk[2]].min_stock = 0

\* A sale was the first move on a key, next to an item that was purchased:
\* the sale was rejected and its item stands in the store, all zero.
C11_Witness ==
  /\ endpoint = "/api/move"
  /\ response = InsufficientStock
  /\ \E k, o \in DOMAIN inventory :
       /\ k # o
       /\ ledger[k] = NoLedger
       /\ inventory[k] = [quantity |-> 0, unit_cost |-> float(RInt(0)), min_stock |-> 0]
       /\ ledger[o].purchased > 0
       /\ inventory[o].quantity > 0

\* --------------------------------------------------------------- C12
\* The payloads whose product name is empty or whitespace only; their other
\* fields pass MovePayload.
BlankNamedPayloads == Enumerated({p \in Payloads : strip(p.product) = <<>>})

ProductRequired == HTTPException(400, "El producto es obligatorio.")

\* C12 as the spec states it: a move whose product name is empty or
\* whitespace only is answered with a 400 error, and no item is created or
\* changed by it.
C12_BlankNameAnswered400 ==
  \A p \in BlankNamedPayloads :
    \A out \in {post_move(inventory, p)} :
      /\ out.response.status_code = 400
      /\ out.inventory = inventory

\* C12, amended: a move whose product name is empty or whitespace only is
\* rejected and no item is created or changed by it; the answer is the 400
\* error "El producto es obligatorio." when the name is whitespace only (one
\* character or more), and the 422 validation error of MovePayload
\* (min_length=1) when the name is the empty string.
C12_BlankNameRejected ==
  \A p \in BlankNamedPayloads :
    \A out \in {post_move(inventory, p)} :
      /\ out.inventory = inventory
      /\ out.response = IF p.product = <<>> THEN ValidationError
                        ELSE ProductRequired

\* A move with a whitespace-only name was answered 400 over a store that
\* holds a purchased item.
C12_Witness ==
  /\ endpoint = "/api/move"
  /\ response = ProductRequired
  /\ \E k \in DOMAIN inventory :
       /\ ledger[k].purchased > 0
       /\ inventory[k].quantity > 0

\* --------------------------------------------------------------- C13
\* C13: items are never deleted one by one: a move, accepted or rejected,
\* and a listing leave every product key of the store in the store; the only
\* request that removes keys is the reset, and it removes them all.
C13_KeysOnlyRemovedByReset ==
  [][IF endpoint' = "/api/reset"
     THEN DOMAIN inventory' = {}
     ELSE DOMAIN inventory \subseteq DOMAIN inventory']_vars

\* A listing shows two items, one of them sold out by an accepted sale and
\* still in the store.
C13_Witness ==
  /\ endpoint = "/api/inventory"
  /\ Len(response.body) = 2
  /\ \E k, o \in DOMAIN inventory :
       /\ k # o
       /\ ledger[k].sold > 0
       /\ inventory[k].quantity = 0

\* --------------------------------------------------------------- C14
\* The fractions x and y are the same number.
SameNumber(x, y) == x.num * y.den = y.num * x.den

\* r is a multiple of 1/100 at a distance of at most 1/200 from the double
\* y: either it is nearer than 1/200 to y.num/y.den (y.err, far below
\* 2^y.exp, cannot bring y 1/200 away), or y.num/y.den is midway between two
\* hundredths and y is that very number or lies on the side of r.
NearestHundredth(r, y) ==
  LET d   == r.num * y.den - y.num * r.den
      gap == r.den * y.den - 200 * Abs(d)
  IN  /\ 100 % r.den = 0
      /\ \/ gap > 0
         \/ gap = 0 /\ d * y.err >= 0

\* Purchases whose unit cost in exact arithmetic is midway between two
\* hundredths and is not a double: 0.075 for one unit (the double is below
\* 3/40) and 0.125 for five units (the double is above 1/40).
TiePurchases ==
  { [type |-> "purchase", product |-> <<"a", "B">>, quantity |-> 1,
     total_cost |-> Some(Rat(3, 40)), min_stock |-> None],
    [type |-> "purchase", product |-> <<"a", "B">>, quantity |-> 5,
     total_cost |-> Some(Rat(1, 8)), min_stock |-> None] }

\* The entries of the listing of the store for product key k.
ListingEntries(k) ==
  LET listing == get_inventory(inventory)
  IN  {listing[i] : i \in {j \in 1..Len(listing) : lower(listing[j].product) = k}}

\* C14 as the spec states it: the answer to an accepted move reports the
\* item after the move: its quantity, min_stock, status and unit_cost are
\* those of the stored item, and those of the entry of that key in a listing
\* taken next.
C14_ResponseEqualsStoredItem ==
  MoveAccepted =>
    LET k    == lower(response.body.product)
        item == inventory[k]
    IN  /\ response.body.quantity = item.quantity
        /\ response.body.min_stock = item.min_stock
        /\ response.body.status = StatusRule(item.quantity, item.min_stock)
        /\ SameNumber(response.body.unit_cost, item.unit_cost)
        /\ \A e \in ListingEntries(k) :
             /\ e.quantity = response.body.quantity
             /\ e.min_stock = response.body.min_stock
             /\ e.status = response.body.status
             /\ SameNumber(e.unit_cost, response.body.unit_cost)

\* C14, amended: the answer to an accepted move reports the item after the
\* move: its quantity and min_stock are those of the stored item, its status
\* is the status of the stored item, and its unit_cost is the stored
\* unit_cost (the float the store keeps, unrounded) rounded to two decimals;
\* the listing taken next has one entry for that key, with the same
\* quantity, min_stock, status and rounded unit_cost.  The same holds for
\* the answer to a purchase, made in any reachable state, whose unit cost is
\* midway between two hundredths in exact arithmetic.
C14_ResponseReportsRoundedItem ==
  /\ MoveAccepted =>
        LET k    == lower(response.body.product)
            item == inventory[k]
        IN  /\ response.body.quantity = item.quantity
            /\ response.body.min_stock = item.min_stock
            /\ response.body.status = StatusRule(item.quantity, item.min_stock)
            /\ NearestHundredth(response.body.unit_cost, item.unit_cost)
            /\ Cardinality(ListingEntries(k)) = 1
            /\ \A e \in ListingEntries(k) :
                 /\ e.quantity = response.body.quantity
                 /\ e.min_stock = response.body.min_stock
                 /\ e.status = response.body.status
                 /\ SameNumber(e.unit_cost, response.body.unit_cost)
  /\ \A p \in TiePurchases :
       \A out \in {post_move(inventory, p)} :
         LET item == out.inventory[lower(strip(p.product))]
         IN  /\ out.response.status_code = 200
             /\ out.response.body.quantity = item.quantity
             /\ NearestHundredth(out.response.body.unit_cost, item.unit_cost)
             /\ \A listing \in {get_inventory(out.inventory)} :
                  \A i \in 1..Len(listing) :
                    lower(listing[i].product) = lower(strip(p.product))
                    => SameNumber(listing[i].unit_cost, out.response.body.unit_cost)

\* A purchase of one unit for 0.125 was accepted: the store holds the unit
\* cost 0.125 and the answer reports 0.12.
C14_Witness ==
  /\ MoveAccepted
  /\ response.body.quantity = 1
  /\ response.body.unit_cost = Rat(12, 100)
  /\ inventory[lower(response.body.product)].unit_cost = float(Rat(1, 8))

\* --------------------------------------------------------------- C15
\* The product key and the quantity of every purchase that reaches line 95:
\* valid, with a product name that is not blank, and with a total_cost.
AppliedPurchaseUnits ==
  Enumerated({<<pk[2], pk[1].quantity>> :
                pk \in {x \in KeyedPayloads : /\ x[1].type = "purchase"
                                              /\ x[1].total_cost # None}})

\* C15: the branch "total_units == 0" of the purchase is never taken: in
\* every reachable state, for every purchase that passes validation
\* (quantity > 0), the quantity of its item, created if absent, plus the
\* quantity of the payload is greater than 0.
C15_TotalUnitsPositive ==
  \A kq \in AppliedPurchaseUnits :
    LET item == get_or_create_item(inventory, kq[1])[kq[1]]
        total_units == item.quantity + kq[2]
    IN  total_units > 0

\* A purchase was applied to an item that an accepted sale had emptied: the
\* item was bought for 1, sold, and bought again for 0.125.
C15_Witness ==
  /\ MoveAccepted
  /\ \E k \in DOMAIN inventory :
       /\ k = lower(response.body.product)
       /\ ledger[k].purchased = 2
       /\ ledger[k].sold = 1
       /\ ledger[k].spent = Rat(9, 8)
       /\ inventory[k].quantity = 1
       /\ inventory[k].unit_cost = float(Rat(1, 8))

\* --------------------------------------------------------------- C16
\* C16: every accepted purchase, also one that follows sales, adds exactly
\* its total_cost to the stock value of its item:
\* new_quantity * new_unit_cost = old_quantity * old_unit_cost + total_cost,
\* in exact arithmetic; and a purchase applied to an item of quantity 0
\* (new, never purchased, or sold out) sets unit_cost to exactly
\* total_cost / quantity, whatever unit_cost the item held.  The purchase of
\* a step is read off the history: the units and the money it added.
C16_PurchaseAddsTotalCost ==
  [][\A k \in DOMAIN ledger' :
       LET before   == IF k \in DOMAIN ledger THEN ledger[k] ELSE NoLedger
           old      == IF k \in DOMAIN inventory THEN inventory[k]
                       ELSE InventoryItem
           new      == inventory'[k]
           quantity == ledger'[k].purchased - before.purchased
           total_cost ==
             RAdd(ledger'[k].spent, RMul(RInt(-1), before.spent))
       IN  (endpoint' = "/api/move" /\ quantity > 0) =>
             /\ SameNumber(RMul(RInt(new.quantity), new.unit_cost),
                           RAdd(RMul(RInt(old.quantity), old.unit_cost),
                                total_cost))
             /\ old.quantity = 0 =>
                  SameNumber(new.unit_cost, RDiv(total_cost, RInt(quantity)))
    ]_vars

\* An item was bought for 0.125, sold out, and bought again for 1: its unit
\* cost is 1, the old unit cost 0.125 has no part in it.
C16_Witness ==
  /\ MoveAccepted
  /\ \E k \in DOMAIN inventory :
       /\ k = lower(response.body.product)
       /\ ledger[k].purchased = 2
       /\ ledger[k].sold = 1
       /\ ledger[k].spent = Rat(9, 8)
       /\ inventory[k].quantity = 1
       /\ inventory[k].unit_cost = float(RInt(1))

\* --------------------------------------------------------------- C17
\* C17: conservation of units: with the requests served one at a time, in
\* every reachable state the quantity of each item is the sum of the
\* quantities of the accepted purchases on its key minus the sum of the
\* quantities of the accepted sales on its key since the last reset;
\* rejected moves contribute nothing.
C17_ConservationOfUnits ==
  /\ DOMAIN ledger = DOMAIN inventory
  /\ \A k \in DOMAIN inventory :
       inventory[k].quantity = ledger[k].purchased - ledger[k].sold

\* Two units were purchased and one sold; the sale of more than the
\* remaining unit was then rejected and the item keeps one unit.
C17_Witness ==
  /\ endpoint = "/api/move"
  /\ response = InsufficientStock
  /\ \E k \in DOMAIN inventory :
       /\ ledger[k].purchased = 2
       /\ ledger[k].sold = 1
       /\ inventory[k].quantity = 1

\* --------------------------------------------------------------- C18
\* C18: in every reachable state the unit_cost of an item is 0 if and only
\* if no purchase on its key has been accepted since the last reset; once a
\* purchase has been accepted the unit_cost is greater than 0 and stays so
\* through later sales and purchases (exact arithmetic).
C18_UnitCostZeroIffNeverPurchased ==
  \A k \in DOMAIN inventory :
    /\ inventory[k].unit_cost.den > 0
    /\ inventory[k].unit_cost.num >= 0
    /\ inventory[k].unit_cost.num = 0 <=> ledger[k].purchased = 0

\* One item was purchased and sold out and keeps its unit cost; the other
\* was created by a rejected move and has unit cost 0.
C18_Witness ==
  \E k, o \in DOMAIN inventory :
    /\ ledger[k].purchased > 0
    /\ ledger[k].sold = ledger[k].purchased
    /\ inventory[k].quantity = 0
    /\ RLess(RInt(0), inventory[k].unit_cost)
    /\ o # k
    /\ ledger[o].purchased = 0
    /\ inventory[o].unit_cost = float(RInt(0))

\* --------------------------------------------------------------- C19
\* Both calls have returned.
AllDone ==
  /\ calls.thread # <<>>
  /\ \A t \in Threads : calls.thread[t].pc = "done"

\* Both calls are register_move calls.
TwoMoves == \A t \in Threads : calls.thread[t].route = "move"

\* The units of the moves of the given type that the two calls accepted.
RECURSIVE AcceptedUnits(_, _)
AcceptedUnits(type, n) ==
  IF n = 0 THEN 0
  ELSE LET call == calls.thread[n]
       IN  AcceptedUnits(type, n - 1)
             + IF /\ call.route = "move"
                  /\ call.response.status_code = 200
                  /\ call.payload.type = type
               THEN call.payload.quantity ELSE 0

\* The stores that the two calls leave when one runs after the other, in the
\* one order and in the other.
SerialOutcomes ==
  LET first  == calls.thread[1]
      second == calls.thread[2]
  IN  { served(served(calls.start, first).inventory, second).inventory,
        served(served(calls.start, second).inventory, first).inventory }

\* C19: access to the store must be serialised.  When each of two
\* calls runs as one atomic step, no update is lost: after both calls the
\* store is the one that one of the two serial orders leaves and no quantity
\* is negative, and after two register_move calls on one product key the
\* quantity of the item is its quantity at the start plus the units of the
\* accepted purchases minus the units of the accepted sales.  (That a lost
\* update is reachable when the calls interleave with no lock is
\* C19_Witness.)
C19_AtomicCallsLoseNoUpdate ==
  (calls.atomic /\ AllDone) =>
    /\ inventory \in SerialOutcomes
    /\ \A k \in DOMAIN inventory :
         /\ inventory[k].quantity >= 0
         /\ TwoMoves =>
              inventory[k].quantity
                = (IF k \in DOMAIN calls.start
                   THEN calls.start[k].quantity ELSE 0)
                  + AcceptedUnits("purchase", 2) - AcceptedUnits("sale", 2)

\* Two sales ran side by side with no lock: each passed the stock check,
\* both were answered 200, and the quantity of the item is below 0, which
\* neither serial order of the two sales leaves.
C19_Witness ==
  /\ ~calls.atomic
  /\ AllDone
  /\ \A t \in Threads :
       /\ calls.thread[t].route = "move"
       /\ calls.thread[t].payload.type = "sale"
       /\ calls.thread[t].response.status_code = 200
  /\ inventory \notin SerialOutcomes
  /\ \E k \in DOMAIN inventory : inventory[k].quantity < 0

====

